---- MODULE Spec2Model ----
(***************************************************************************)
(* Inverted-pendulum PID demo (cart-pole, RK4, requestAnimationFrame       *)
(* driver) as a state machine.                                             *)
(*                                                                         *)
(* Numbers.  The script computes in IEEE doubles; TLC has 32-bit integers. *)
(* Every real quantity is held as a fixed-point integer with six decimal   *)
(* places (value * Scale).  Products and quotients are rounded to the      *)
(* nearest unit and are evaluated in the order the script evaluates them.  *)
(* sin and cos are Taylor polynomials after range reduction; they agree    *)
(* with Math.sin / Math.cos to about 3e-6.                                 *)
(***************************************************************************)
EXTENDS Integers, Sequences, FiniteSets, TLC

\* ---------------------------------------------------------------- bounds
\* A frame callback advances the state only while fewer than MaxTicks ticks
\* have run since the last reset.
MaxTicks == 17
\* At most MaxInputs slider input events are delivered in one behaviour.
MaxInputs == 1
\* The run of the stabilised pendulum is followed for MaxStableTicks ticks
\* (two integrator steps each).
MaxStableTicks == 50
\* rk4Step is applied MaxEnergySteps times in a row to the free pendulum.
MaxEnergySteps == 1000
\* The denominator is evaluated at every whole degree from -MaxProbeAngle to
\* MaxProbeAngle and at the doubles of these angles.
MaxProbeAngle == 180
\* The navigation handles at most MaxNavEvents events in one behaviour.
MaxNavEvents == 4
\* The debounced function is called at most MaxCalls times, during the first
\* MaxTime timer ticks.
MaxCalls == 3
MaxTime == 5
\* At most MaxTagClicks tag buttons are clicked in one behaviour.
MaxTagClicks == 3

\* ------------------------------------------------------- fixed-point layer
\* Every operator below first binds its arguments to their values
\* ({e : x \in {a}} evaluates a once), so that an argument expression is
\* evaluated once however often the body uses it.
Val(S) == CHOOSE r \in S : TRUE

Scale == 10^6
Half == 10^3

Abs(a) == Val({IF x < 0 THEN -x ELSE x : x \in {a}})

\* Math.sign
Sign(a) == Val({IF x > 0 THEN 1 ELSE IF x < 0 THEN -1 ELSE 0 : x \in {a}})

Max(a, b) == Val({IF x > y THEN x ELSE y : x \in {a}, y \in {b}})
Min(a, b) == Val({IF x < y THEN x ELSE y : x \in {a}, y \in {b}})

\* a / n for a small positive integer n, rounded to the nearest unit
RDiv(a, n) == (2 * a + n) \div (2 * n)

\* x * y of two fixed-point numbers, rounded to the nearest unit; the
\* operands are split at Half so that no partial product leaves 32 bits
Product(x, y) ==
    (x \div Half) * (y \div Half)
      + (((x \div Half) * (y % Half) + (x % Half) * (y \div Half)
          + (((x % Half) * (y % Half) + Scale \div 2) \div Half)) \div Half)

Mul(a, b) == Val({Product(x, y) : x \in {a}, y \in {b}})

\* x / y of two fixed-point numbers (y > 0), by long division
Quotient(x, y) ==
    (x \div y) * Scale
      + (((x % y) * Half) \div y) * Half
      + (((((x % y) * Half) % y) * Half + y \div 2) \div y)

Div(a, b) == Val({Quotient(x, y) : x \in {a}, y \in {b}})

\* Math.PI
PI == 3141593

\* theta brought into [-PI, PI)
Reduce(t) == ((t + PI) % (2 * PI)) - PI

\* sin r = r (1 - r2/6 (1 - r2/20 (1 - r2/42 (1 - r2/72 (1 - r2/110))))),
\* the Taylor polynomial of degree 11, for r in [-PI/2, PI/2] and r2 = r * r
SinHorner(r, r2) ==
    Mul(r, Scale - Mul(RDiv(r2, 6), Scale - Mul(RDiv(r2, 20),
           Scale - Mul(RDiv(r2, 42), Scale - Mul(RDiv(r2, 72),
           Scale - RDiv(r2, 110))))))

SinPoly(a) == Val({Val({SinHorner(r, r2) : r2 \in {Mul(r, r)}}) : r \in {a}})

\* cos r = 1 - r2/2 (1 - r2/12 (1 - r2/30 (1 - r2/56 (1 - r2/90 (1 - r2/132))))),
\* the Taylor polynomial of degree 12, for r in [-PI/2, PI/2] and r2 = r * r
CosHorner(r2) ==
    Scale - Mul(RDiv(r2, 2), Scale - Mul(RDiv(r2, 12), Scale - Mul(RDiv(r2, 30),
            Scale - Mul(RDiv(r2, 56), Scale - Mul(RDiv(r2, 90),
            Scale - RDiv(r2, 132))))))

CosPoly(a) == Val({CosHorner(r2) : r2 \in {Mul(a, a)}})

\* Math.sin
Sin(t) ==
    Val({IF r > PI \div 2 THEN SinPoly(PI - r)
         ELSE IF r < -(PI \div 2) THEN SinPoly(-PI - r)
         ELSE SinPoly(r) : r \in {Reduce(t)}})

\* Math.cos
Cos(t) ==
    Val({IF r > PI \div 2 THEN -CosPoly(PI - r)
         ELSE IF r < -(PI \div 2) THEN -CosPoly(-PI - r)
         ELSE CosPoly(r) : r \in {Reduce(t)}})

\* ------------------------------------------------------------ parameters
\* const PARAMS
PARAMS == [M |-> Scale, m |-> Scale \div 10, l |-> Scale \div 2,
           g |-> (981 * Scale) \div 100, dt |-> Scale \div 100,
           friction |-> Scale \div 10]

\* actuator range of computeControl: Math.max(-50, Math.min(50, u))
UMax == 50
\* track limit of simulate: Math.abs(state.x) > 2.5
XLimit == (25 * Scale) \div 10
\* const stepsPerFrame = 2
stepsPerFrame == 2

\* deg * Math.PI / 180
DegToRad(deg) == RDiv(deg * PI, 180)

\* values the sliders deliver (parseFloat(e.target.value))
KpValues == {0, 50}
KiValues == {0, 10}
KdValues == {0, 20}
Theta0Degrees == {10, 89}

VARIABLES
    state,          \* let state = {x, xDot, theta, thetaDot, integral, time}
    gains,          \* let gains = {Kp, Ki, Kd}
    initialTheta,   \* let initialTheta
    isRunning,      \* let isRunning
    animationId,    \* let animationId (0 stands for null)
    controlInput,   \* let controlInput
    pending,        \* handles of the frame callbacks the host still holds
    startBtn,       \* textContent of #start-btn
    frames,         \* what the most recent handler handed to render/updateStateDisplay
    tickLog,        \* the sub-steps of the most recent tick since the last reset
    fallSignals,    \* how often the fall check has fired since the last reset
    lastCmd,        \* the handler that ran most recently
    inputs,         \* slider input events delivered so far
    probe,          \* <<state, u, result>> of a direct call of computeDerivatives,
                    \* <<state, u, result, dt>> of one of rk4Step,
                    \* <<theta, denom>> of an evaluation of denom
    friction        \* PARAMS.friction, the one field of PARAMS the claims vary

\* the site script common.js, loaded by every page
VARIABLES
    navActive,      \* navList.classList.contains('active')
    ariaExpanded,   \* the aria-expanded attribute of navToggle ("absent": not set)
    ariaLabel,      \* the aria-label attribute of navToggle ("absent": not set)
    navLog,         \* the events the navigation has handled, oldest first
    now,            \* the time, in timer ticks since the page loaded
    timeout,        \* let timeout of the debounced function (0: undefined)
    timers,         \* the timers setTimeout has registered and not yet run
    calls,          \* the calls of the debounced function so far, oldest first
    invocations,    \* the invocations of func so far, oldest first
    tagActive,      \* the tag buttons that carry the class 'tag-active'
    hidden,         \* the article cards that carry the class 'hidden'
    tagLog          \* the tag buttons clicked so far, oldest first

\* the React widgets of the articles: polarcurve.js, coordinateTransformation.js
VARIABLES
    wind,           \* the state wind of the polar curve, in km/h
    gLoad,          \* the state gLoad of the polar curve, in tenths
    bestGlide,      \* the memo bestGlide: [vAir, wSink], in hundredths
    minSlope,       \* minSlope when the scan of bestGlide ended: <<wSink, speed>>
    alpha,          \* the state alpha of the axis visualizer, in degrees
    viewMode,       \* the state viewMode of the axis visualizer
    canvas          \* the rotations drawSystem drew last: [bodyAngle, stabAngle]

navVars == <<navActive, ariaExpanded, ariaLabel, navLog>>
debounceVars == <<now, timeout, timers, calls, invocations>>
tagVars == <<tagActive, hidden, tagLog>>
polarVars == <<wind, gLoad, bestGlide, minSlope>>
axisVars == <<alpha, viewMode, canvas>>
siteVars == <<navVars, debounceVars, tagVars, polarVars, axisVars>>

pendulumVars == <<state, gains, initialTheta, isRunning, animationId,
                  controlInput, pending, startBtn, frames, tickLog, fallSignals,
                  lastCmd, inputs, probe, friction>>

vars == <<state, gains, initialTheta, isRunning, animationId, controlInput,
          pending, startBtn, frames, tickLog, fallSignals, lastCmd, inputs, probe,
          friction, siteVars>>

\* the two texts the toggle handler writes to aria-label
CloseMenuLabel == "close menu"
OpenMenuLabel == "open menu"

\* the navigation as the page's markup delivers it: the menu closed, the two
\* attributes as given
NavMarkup(expanded, label) ==
    /\ navActive = FALSE
    /\ ariaExpanded = expanded
    /\ ariaLabel = label
    /\ navLog = <<>>

\* const debounced = SiteUtils.debounce(func, wait) has just been evaluated
DebouncedCreated ==
    /\ now = 0
    /\ timeout = 0
    /\ timers = {}
    /\ calls = <<>>
    /\ invocations = <<>>

\* the tag filter as the page's markup delivers it
TagMarkup(active, hide) ==
    /\ tagActive = active
    /\ hidden = hide
    /\ tagLog = <<>>

\* ----------------------------------------------------- polarcurve.js
\* Speeds are held in hundredths (km/h and m/s), as toFixed(2) leaves them,
\* the load factor in tenths, as the slider delivers it.

\* min and max of the wind slider (step 1)
WindMin == -40
WindMax == 60
\* min and max of the load-factor slider (step 0.1), in tenths
GLoadMin == 5
GLoadMax == 40
\* for (let vBase = 10; vBase <= 120; vBase += 2)
VBaseFirst == 10
VBaseLast == 120
VBaseStep == 2
\* baseA, baseB and baseC, in ten-thousandths
baseA == 5
baseB == -200
baseC == 8000
\* if (groundSpeed <= 5) return, in hundredths
MinGroundSpeed == 500

\* Newton's iteration for the largest integer whose square is at most n,
\* started at an x that is positive and not below it
RECURSIVE SqrtFrom(_, _)
SqrtFrom(n, x) ==
    Val({IF y >= x THEN x ELSE SqrtFrom(n, y) : y \in {(x + n \div x) \div 2}})

\* sqrt(n) rounded to the nearest integer (sqrt(n) is never half an integer)
RoundSqrt(n, start) ==
    Val({IF n > f * f + f THEN f + 1 ELSE f : f \in {SqrtFrom(n, start)}})

\* sqrt(p / 250) rounded to the nearest integer (never half an integer
\* either: 4 * p = 250 * (2 * f + 1)^2 has no solution in integers)
RoundSqrt250th(p, start) ==
    Val({IF 4 * p > 250 * (2 * f + 1) * (2 * f + 1) THEN f + 1 ELSE f :
            f \in {SqrtFrom(p \div 250, start)}})

\* an integer above 100 * gFactor = sqrt(1000 * g), where the iterations start
AboveGFactor(g) == SqrtFrom(1000 * g, 1000 * g) + 1

\* parseFloat((vBase * gFactor).toFixed(2)): vBase * sqrt(g / 10) in
\* hundredths is sqrt(1000 * vBase^2 * g), rounded to the nearest integer
vAirOf(vBase, g, above) == RoundSqrt(1000 * vBase * vBase * g, vBase * above)

\* baseA * vBase^2 + baseB * vBase + baseC, in ten-thousandths; a multiple
\* of 20 as vBase is even
wBaseOf(vBase) == baseA * vBase * vBase + baseB * vBase + baseC

\* parseFloat((wBase * gFactor).toFixed(2)): wBase * sqrt(g / 10) in
\* hundredths is sqrt(k^2 * g / 250) for k = wBase / 20 in ten-thousandths
wSinkOf(vBase, g, above) ==
    Val({RoundSqrt250th(k * k * g, (k * above) \div 500 + 1) :
            k \in {wBaseOf(vBase) \div 20}})

\* the memo data: the points of the curve for the load factor g, in the
\* order of the loop
Curve(g) ==
    Val({[i \in 1..((VBaseLast - VBaseFirst) \div VBaseStep + 1) |->
             [vAir |-> vAirOf(VBaseFirst + VBaseStep * (i - 1), load, above),
              wSink |-> wSinkOf(VBaseFirst + VBaseStep * (i - 1), load, above)]] :
            load \in {g}, above \in {AboveGFactor(g)}})

\* let minSlope = Infinity, as a quotient <<1, 0>>
Infinity == <<1, 0>>

\* faulty variant of Lower: the comparison is reversed
Higher(slope, min) == slope[1] * min[2] > min[1] * slope[2]

\* slope < minSlope for two quotients <<wSink, groundSpeed>> of positive
\* ground speed (or Infinity), where the quotients differ
Lower(slope, min) == slope[1] * min[2] < min[1] * slope[2]

\* the two quotients are the same number; the doubles the code compares are
\* each rounded, so that either of them may be the lower one
Tied(slope, min) == slope[1] * min[2] = min[1] * slope[2]

\* the body of data.forEach for the point p: the values of
\* [bestPoint, minSlope] it may leave
Visit(p, w, acc) ==
    UNION {IF groundSpeed <= MinGroundSpeed
           THEN {acc}
           ELSE UNION {(IF Lower(slope, acc.minSlope) \/ Tied(slope, acc.minSlope)
                        THEN {[bestPoint |-> p, minSlope |-> slope]}
                        ELSE {})
                       \cup (IF Lower(slope, acc.minSlope) THEN {} ELSE {acc}) :
                          slope \in {<<p.wSink, groundSpeed>>}} :
              groundSpeed \in {p.vAir - 100 * w}}

\* data.forEach from the i-th point on
RECURSIVE ScanFrom(_, _, _, _)
ScanFrom(data, w, i, acc) ==
    IF i > Len(data)
    THEN {acc}
    ELSE UNION {ScanFrom(data, w, i + 1, a) : a \in Visit(data[i], w, acc)}

\* the memo bestGlide for the curve data and the wind w: the values of
\* [bestPoint, minSlope] the scan may end with
BestGlides(data, w) ==
    ScanFrom(data, w, 1, [bestPoint |-> data[1], minSlope |-> Infinity])

\* a page without the polar curve: nothing is computed
PolarAbsent ==
    /\ wind = 0
    /\ gLoad = 10
    /\ bestGlide = [vAir |-> 0, wSink |-> 0]
    /\ minSlope = Infinity

\* the polar curve after its first render: wind 0, load factor 1.0
PolarMounted ==
    /\ wind = 0
    /\ gLoad = 10
    /\ \E r \in BestGlides(Curve(10), 0) :
          /\ bestGlide = r.bestPoint
          /\ minSlope = r.minSlope

\* ------------------------------------------- coordinateTransformation.js
\* min and max of the alpha slider (step 1)
AlphaMin == -30
AlphaMax == 30

\* const toRad = (deg) => (deg * Math.PI) / 180
toRad(deg) == RDiv(deg * PI, 180)

\* faulty variant of drawSystem: the body axes rotate down in stability mode
drawSystemSameSign(alphaDeg, mode) ==
    Val({IF mode = "body"
         THEN [bodyAngle |-> 0, stabAngle |-> alphaRad]
         ELSE [bodyAngle |-> alphaRad, stabAngle |-> 0] :
            alphaRad \in {toRad(alphaDeg)}})

\* drawSystem(ctx, alphaDeg, mode): the angles passed to ctx.rotate before
\* the body axes and before the stability axes are drawn
drawSystem(alphaDeg, mode) ==
    Val({IF mode = "body"
         THEN [bodyAngle |-> 0, stabAngle |-> alphaRad]
         ELSE [bodyAngle |-> -alphaRad, stabAngle |-> 0] :
            alphaRad \in {toRad(alphaDeg)}})

\* a page without the axis visualizer: nothing is drawn
VisualizerAbsent ==
    /\ alpha = 15
    /\ viewMode = "stability"
    /\ canvas = [bodyAngle |-> 0, stabAngle |-> 0]

\* the axis visualizer after its first render: alpha 15, stability view
VisualizerMounted ==
    /\ alpha = 15
    /\ viewMode = "stability"
    /\ canvas = drawSystem(15, "stability")

\* a page with neither of the two widgets
WidgetsAbsent == PolarAbsent /\ VisualizerAbsent

\* the site script has run init() on a page whose toggle is marked up as
\* collapsed and labelled "open menu", whose first tag button is marked
\* active and none of whose article cards is hidden
SiteLoaded ==
    /\ NavMarkup("false", OpenMenuLabel)
    /\ DebouncedCreated
    /\ TagMarkup({1}, {})
    /\ WidgetsAbsent

\* -------------------------------------------------------- physics engine
\* faulty variant of Drive: the friction acts on the position, not on the velocity
DriveFrictionOnX(st, u, sinTheta) ==
    u - Mul(friction, st.x)
      + Mul(Mul(Mul(Mul(PARAMS.m, PARAMS.l), st.thetaDot), st.thetaDot), sinTheta)

\* u - friction * xDot + m * l * thetaDot * thetaDot * sinTheta, the term the
\* two accelerations of computeDerivatives share
Drive(st, u, sinTheta) ==
    u - Mul(friction, st.xDot)
      + Mul(Mul(Mul(Mul(PARAMS.m, PARAMS.l), st.thetaDot), st.thetaDot), sinTheta)

\* faulty variant of Denom: the mass of the bob is left out of the sum
DenomCartOnly(cosTheta) == PARAMS.M - Mul(Mul(PARAMS.m, cosTheta), cosTheta)

\* const denom = M + m - m * cosTheta * cosTheta
Denom(cosTheta) == PARAMS.M + PARAMS.m - Mul(Mul(PARAMS.m, cosTheta), cosTheta)

\* the record computeDerivatives returns, from sin, cos, denom and the drive
Derivatives(st, sinTheta, cosTheta, denom, drive) ==
    [xDot |-> st.xDot,
     xDDot |-> Div(drive - Mul(Mul(Mul(PARAMS.m, PARAMS.g), sinTheta), cosTheta),
                   denom),
     thetaDot |-> st.thetaDot,
     thetaDDot |-> Div(Mul(Mul(PARAMS.M + PARAMS.m, PARAMS.g), sinTheta)
                         - Mul(cosTheta, drive),
                       Mul(PARAMS.l, denom))]

\* function computeDerivatives(state, u)
computeDerivatives(state0, u0) ==
    Val({Val({Val({Derivatives(st, sinTheta, cosTheta, denom, drive) :
                      denom \in {Denom(cosTheta)},
                      drive \in {Drive(st, u, sinTheta)}}) :
                 sinTheta \in {Sin(st.theta)}, cosTheta \in {Cos(st.theta)}}) :
            st \in {state0}, u \in {u0}})

\* faulty variant of ControlLaw: the force has the opposite sign
ControlLawOpposite(st) ==
    -(Mul(gains.Kp, st.theta) + Mul(gains.Ki, st.integral)
        + Mul(gains.Kd, st.thetaDot))

\* faulty variant of ControlLaw: the gains are the ones read when the script loaded
ControlLawSnapshot(st) ==
    Mul(50 * Scale, st.theta) + Mul(0, st.integral) + Mul(20 * Scale, st.thetaDot)

\* the PID control law of computeControl before the clamp
ControlLaw(st) ==
    Mul(gains.Kp, st.theta) + Mul(gains.Ki, st.integral) + Mul(gains.Kd, st.thetaDot)

\* faulty variant of computeControl: the clamp is left out
computeControlUnclamped(state0) == Val({ControlLaw(st) : st \in {state0}})

\* function computeControl(state): reads the gains at the moment it is called
computeControl(state0) ==
    Val({Max(-UMax * Scale, Min(UMax * Scale, ControlLaw(st))) : st \in {state0}})

\* faulty variant of Stage: state2 and state3 are taken a whole dt ahead
StageWholeStep(st, k, dt, n) ==
    [x |-> st.x + Mul(k.xDot, dt),
     xDot |-> st.xDot + Mul(k.xDDot, dt),
     theta |-> st.theta + Mul(k.thetaDot, dt),
     thetaDot |-> st.thetaDot + Mul(k.thetaDDot, dt)]

\* state2, state3, state4 of rk4Step: st advanced by k * dt / n (n = 2 for
\* state2 and state3, n = 1 for state4)
Stage(st, k, dt, n) ==
    [x |-> st.x + RDiv(Mul(k.xDot, dt), n),
     xDot |-> st.xDot + RDiv(Mul(k.xDDot, dt), n),
     theta |-> st.theta + RDiv(Mul(k.thetaDot, dt), n),
     thetaDot |-> st.thetaDot + RDiv(Mul(k.thetaDDot, dt), n)]

\* faulty variant of Combine: an Euler step, only k1 enters the result
CombineEuler(st, k1, k2, k3, k4, dt) ==
    [x |-> st.x + Mul(k1.xDot, dt),
     xDot |-> st.xDot + Mul(k1.xDDot, dt),
     theta |-> st.theta + Mul(k1.thetaDot, dt),
     thetaDot |-> st.thetaDot + Mul(k1.thetaDDot, dt),
     integral |-> st.integral + Mul(st.theta, dt),
     time |-> st.time + dt]

\* faulty variant of Combine: the integral accumulates the theta after the step
CombineNewTheta(st, k1, k2, k3, k4, dt) ==
    [x |-> st.x + RDiv(Mul(k1.xDot + 2 * k2.xDot + 2 * k3.xDot + k4.xDot, dt), 6),
     xDot |-> st.xDot
                + RDiv(Mul(k1.xDDot + 2 * k2.xDDot + 2 * k3.xDDot + k4.xDDot, dt), 6),
     theta |-> st.theta
                + RDiv(Mul(k1.thetaDot + 2 * k2.thetaDot + 2 * k3.thetaDot
                             + k4.thetaDot, dt), 6),
     thetaDot |-> st.thetaDot
                + RDiv(Mul(k1.thetaDDot + 2 * k2.thetaDDot + 2 * k3.thetaDDot
                             + k4.thetaDDot, dt), 6),
     integral |-> st.integral
                + Mul(st.theta
                        + RDiv(Mul(k1.thetaDot + 2 * k2.thetaDot + 2 * k3.thetaDot
                                     + k4.thetaDot, dt), 6), dt),
     time |-> st.time + dt]

\* the state rk4Step returns, from the four derivative records
Combine(st, k1, k2, k3, k4, dt) ==
    [x |-> st.x + RDiv(Mul(k1.xDot + 2 * k2.xDot + 2 * k3.xDot + k4.xDot, dt), 6),
     xDot |-> st.xDot
                + RDiv(Mul(k1.xDDot + 2 * k2.xDDot + 2 * k3.xDDot + k4.xDDot, dt), 6),
     theta |-> st.theta
                + RDiv(Mul(k1.thetaDot + 2 * k2.thetaDot + 2 * k3.thetaDot
                             + k4.thetaDot, dt), 6),
     thetaDot |-> st.thetaDot
                + RDiv(Mul(k1.thetaDDot + 2 * k2.thetaDDot + 2 * k3.thetaDDot
                             + k4.thetaDDot, dt), 6),
     integral |-> st.integral + Mul(st.theta, dt),
     time |-> st.time + dt]

\* function rk4Step(state, u, dt)
rk4Step(state0, u0, dt) ==
    Val({Val({Val({Val({Val({Combine(st, k1, k2, k3, k4, dt) :
        k4 \in {computeDerivatives(Stage(st, k3, dt, 1), u)}}) :
        k3 \in {computeDerivatives(Stage(st, k2, dt, 2), u)}}) :
        k2 \in {computeDerivatives(Stage(st, k1, dt, 2), u)}}) :
        k1 \in {computeDerivatives(st, u)}}) :
        st \in {state0}, u \in {u0}})

\* n integrator steps from state0 under the one force u0
RECURSIVE HeldSteps(_, _, _)
HeldSteps(state0, u0, n) ==
    IF n = 0 THEN <<>>
    ELSE Val({Val({<<[pre |-> st, u |-> u, post |-> post]>>
                     \o HeldSteps(post, u, n - 1) :
                 post \in {rk4Step(st, u, PARAMS.dt)}}) :
            st \in {state0}, u \in {u0}})

\* faulty variant of SubSteps: the force is computed once per tick and held
\* for all its sub-steps
SubStepsHeldForce(state0, n) == HeldSteps(state0, computeControl(state0), n)

\* ------------------------------------------------------------ the driver
\* the for loop of simulate: n times controlInput = computeControl(state);
\* state = rk4Step(state, controlInput, PARAMS.dt).  The result lists, for
\* each pass, the state it started from, the force and the state it produced.
RECURSIVE SubSteps(_, _)
SubSteps(state0, n) ==
    IF n = 0 THEN <<>>
    ELSE Val({Val({Val({<<[pre |-> st, u |-> u, post |-> post]>>
                          \o SubSteps(post, n - 1) :
                      post \in {rk4Step(st, u, PARAMS.dt)}}) :
                 u \in {computeControl(st)}}) :
            st \in {state0}})

\* faulty variant of BoundCart: the wall stops the cart but keeps its velocity
BoundCartKeepsVelocity(state0) ==
    Val({IF Abs(st.x) > XLimit
         THEN [st EXCEPT !.x = Sign(st.x) * XLimit]
         ELSE st : st \in {state0}})

\* faulty variant of BoundCart: hitting the wall also stops the pendulum
BoundCartStopsPendulum(state0) ==
    Val({IF Abs(st.x) > XLimit
         THEN [st EXCEPT !.x = Sign(st.x) * XLimit, !.xDot = 0, !.thetaDot = 0]
         ELSE st : st \in {state0}})

\* "Bound cart position" of simulate
BoundCart(state0) ==
    Val({IF Abs(st.x) > XLimit
         THEN [st EXCEPT !.x = Sign(st.x) * XLimit, !.xDot = 0]
         ELSE st : st \in {state0}})

\* faulty variant of HasFallen: the angle is compared with pi instead of pi / 2
HasFallenAtPi(st) == Abs(st.theta) > PI

\* "Check for fallen pendulum" of simulate: Math.abs(state.theta) > Math.PI / 2
HasFallen(st) == 2 * Abs(st.theta) > PI

\* requestAnimationFrame returns a fresh non-zero handle.  Handles are opaque
\* to the script (it only stores the last one and passes it back), so the
\* least handle that is neither pending nor stored is taken.
NewHandle ==
    CHOOSE h \in 1..(Cardinality(pending) + 2) : h \notin pending \cup {animationId}

\* faulty variant of CancelStored: cancelAnimationFrame is never called
CancelNothing == pending

\* if (animationId) cancelAnimationFrame(animationId)
CancelStored == IF animationId # 0 THEN pending \ {animationId} ELSE pending

\* faulty variant of ResetValue: the integral term survives the reset
ResetValueKeepsIntegral ==
    [x |-> 0, xDot |-> 0, theta |-> initialTheta, thetaDot |-> 0,
     integral |-> state.integral, time |-> 0]

\* the state object resetState builds
ResetValue ==
    [x |-> 0, xDot |-> 0, theta |-> initialTheta, thetaDot |-> 0,
     integral |-> 0, time |-> 0]

\* faulty variant of Frame: the force shown is recomputed from the state shown
FrameRecomputed(st, u) == [state |-> st, u |-> computeControl(st)]

\* render(state, u); updateStateDisplay(state, u)
Frame(st, u) == [state |-> st, u |-> u]

\* the script's top level followed by init(), which calls resetState()
PendulumLoaded ==
    /\ initialTheta = DegToRad(10)
    /\ state = [x |-> 0, xDot |-> 0, theta |-> DegToRad(10), thetaDot |-> 0,
                integral |-> 0, time |-> 0]
    /\ gains = [Kp |-> 50 * Scale, Ki |-> 0, Kd |-> 20 * Scale]
    /\ isRunning = FALSE
    /\ animationId = 0
    /\ controlInput = 0
    /\ pending = {}
    /\ startBtn = "Start"
    /\ frames = <<Frame(state, 0)>>
    /\ tickLog = <<>>
    /\ fallSignals = 0
    /\ lastCmd = "init"
    /\ inputs = 0
    /\ probe = <<>>
    /\ friction = PARAMS.friction

\* the pendulum page as loaded
Init == PendulumLoaded /\ SiteLoaded

\* faulty variant of simulate: render and updateStateDisplay are called before
\* the cart position is bounded
simulateRenderFirst(h) ==
    /\ isRunning
    /\ \E log \in {SubSteps(state, stepsPerFrame)} :
       \E last \in {log[Len(log)]} :
       \E bounded \in {BoundCart(last.post)} :
       \E fell \in {HasFallen(bounded)}, next \in {NewHandle} :
           /\ tickLog' = log
           /\ controlInput' = last.u
           /\ state' = bounded
           /\ isRunning' = ~fell
           /\ startBtn' = IF fell THEN "Start" ELSE startBtn
           /\ fallSignals' = IF fell THEN fallSignals + 1 ELSE fallSignals
           /\ frames' = <<Frame(last.post, last.u)>>
           /\ pending' = IF fell THEN pending \ {h}
                         ELSE (pending \ {h}) \cup {next}
           /\ animationId' = IF fell THEN animationId ELSE next
    /\ lastCmd' = "tick"
    /\ UNCHANGED <<gains, initialTheta, inputs, probe, friction, siteVars>>

\* faulty variant of simulate: the isRunning test at the top is left out
simulateAlways(h) ==
    /\ \E log \in {SubSteps(state, stepsPerFrame)} :
       \E last \in {log[Len(log)]} :
       \E bounded \in {BoundCart(last.post)} :
       \E fell \in {HasFallen(bounded)}, next \in {NewHandle} :
           /\ tickLog' = log
           /\ controlInput' = last.u
           /\ state' = bounded
           /\ isRunning' = ~fell
           /\ startBtn' = IF fell THEN "Start" ELSE startBtn
           /\ fallSignals' = IF fell THEN fallSignals + 1 ELSE fallSignals
           /\ frames' = <<Frame(bounded, last.u)>>
           /\ pending' = IF fell \/ ~isRunning THEN pending \ {h}
                         ELSE (pending \ {h}) \cup {next}
           /\ animationId' = IF fell \/ ~isRunning THEN animationId ELSE next
    /\ lastCmd' = "tick"
    /\ UNCHANGED <<gains, initialTheta, inputs, probe, friction, siteVars>>

\* function simulate(timestamp), called for the frame callback with handle h
\* (h = 0: called without a registered callback)
simulate(h) ==
    /\ IF ~isRunning
       THEN /\ pending' = pending \ {h}
            /\ frames' = <<>>
            /\ lastCmd' = "frame"
            /\ UNCHANGED <<state, gains, initialTheta, isRunning, animationId,
                           controlInput, startBtn, tickLog, fallSignals, inputs,
                           probe, friction, siteVars>>
       ELSE /\ \E log \in {SubSteps(state, stepsPerFrame)} :
               \E last \in {log[Len(log)]} :
               \E bounded \in {BoundCart(last.post)} :
               \E fell \in {HasFallen(bounded)}, next \in {NewHandle} :
                   /\ tickLog' = log
                   /\ controlInput' = last.u
                   /\ state' = bounded
                   /\ isRunning' = ~fell
                   /\ startBtn' = IF fell THEN "Start" ELSE startBtn
                   /\ fallSignals' = IF fell THEN fallSignals + 1 ELSE fallSignals
                   /\ frames' = <<Frame(bounded, last.u)>>
                   /\ pending' = IF fell THEN pending \ {h}
                                 ELSE (pending \ {h}) \cup {next}
                   /\ animationId' = IF fell THEN animationId ELSE next
            /\ lastCmd' = "tick"
            /\ UNCHANGED <<gains, initialTheta, inputs, probe, friction, siteVars>>

\* the simulated time has not passed n ticks' worth
Before(n) == state.time < n * stepsPerFrame * PARAMS.dt

\* the host fires a pending frame callback
Tick == \E h \in pending : (isRunning => Before(MaxTicks)) /\ simulate(h)

\* 'input' on #kp-slider
KpSliderInput ==
    \E v \in KpValues :
        /\ inputs < MaxInputs
        /\ v * Scale # gains.Kp
        /\ gains' = [gains EXCEPT !.Kp = v * Scale]
        /\ inputs' = inputs + 1
        /\ frames' = <<>>
        /\ lastCmd' = "kp"
        /\ UNCHANGED <<state, initialTheta, isRunning, animationId, controlInput,
                       pending, startBtn, tickLog, fallSignals, probe, friction,
                       siteVars>>

\* 'input' on #ki-slider
KiSliderInput ==
    \E v \in KiValues :
        /\ inputs < MaxInputs
        /\ v * Scale # gains.Ki
        /\ gains' = [gains EXCEPT !.Ki = v * Scale]
        /\ inputs' = inputs + 1
        /\ frames' = <<>>
        /\ lastCmd' = "ki"
        /\ UNCHANGED <<state, initialTheta, isRunning, animationId, controlInput,
                       pending, startBtn, tickLog, fallSignals, probe, friction,
                       siteVars>>

\* 'input' on #kd-slider
KdSliderInput ==
    \E v \in KdValues :
        /\ inputs < MaxInputs
        /\ v * Scale # gains.Kd
        /\ gains' = [gains EXCEPT !.Kd = v * Scale]
        /\ inputs' = inputs + 1
        /\ frames' = <<>>
        /\ lastCmd' = "kd"
        /\ UNCHANGED <<state, initialTheta, isRunning, animationId, controlInput,
                       pending, startBtn, tickLog, fallSignals, probe, friction,
                       siteVars>>

\* faulty variant of Theta0State: the isRunning test is left out
Theta0StateAlways(rad) == [state EXCEPT !.theta = rad]

\* the new state of the theta0-slider handler for the angle rad
Theta0State(rad) == IF ~isRunning THEN [state EXCEPT !.theta = rad] ELSE state

\* 'input' on #theta0-slider
Theta0SliderInput ==
    \E deg \in Theta0Degrees :
        /\ inputs < MaxInputs
        /\ initialTheta' = DegToRad(deg)
        /\ state' = Theta0State(DegToRad(deg))
        /\ frames' = IF ~isRunning THEN <<Frame(state', 0)>> ELSE <<>>
        /\ inputs' = inputs + 1
        /\ lastCmd' = "theta0"
        /\ UNCHANGED <<gains, isRunning, animationId, controlInput, pending,
                       startBtn, tickLog, fallSignals, probe, friction, siteVars>>

\* faulty variant of StartCmd: the handler also calls resetState()
StartCmdRestarts ==
    /\ ~isRunning
    /\ isRunning' = TRUE
    /\ startBtn' = "Pause"
    /\ animationId' = NewHandle
    /\ pending' = pending \cup {NewHandle}
    /\ state' = ResetValue
    /\ controlInput' = 0
    /\ frames' = <<Frame(ResetValue, 0)>>
    /\ lastCmd' = "start"
    /\ UNCHANGED <<gains, initialTheta, tickLog, fallSignals, inputs, probe,
                   friction, siteVars>>

\* 'click' on #start-btn while not running: the else branch
StartCmd ==
    /\ ~isRunning
    /\ isRunning' = TRUE
    /\ startBtn' = "Pause"
    /\ animationId' = NewHandle
    /\ pending' = pending \cup {NewHandle}
    /\ frames' = <<>>
    /\ lastCmd' = "start"
    /\ UNCHANGED <<state, gains, initialTheta, controlInput, tickLog,
                   fallSignals, inputs, probe, friction, siteVars>>

\* 'click' on #start-btn while running: the if branch
PauseCmd ==
    /\ isRunning
    /\ isRunning' = FALSE
    /\ pending' = CancelStored
    /\ startBtn' = "Start"
    /\ frames' = <<>>
    /\ lastCmd' = "pause"
    /\ UNCHANGED <<state, gains, initialTheta, animationId, controlInput,
                   tickLog, fallSignals, inputs, probe, friction, siteVars>>

\* 'click' on #reset-btn, resetState() included
ResetBtnClick ==
    /\ isRunning' = FALSE
    /\ pending' = CancelStored
    /\ startBtn' = "Start"
    /\ state' = ResetValue
    /\ controlInput' = 0
    /\ frames' = <<Frame(ResetValue, 0)>>
    /\ tickLog' = <<>>
    /\ fallSignals' = 0
    /\ lastCmd' = "reset"
    /\ UNCHANGED <<gains, initialTheta, animationId, inputs, probe, friction, siteVars>>

Next ==
    \/ Tick
    \/ KpSliderInput
    \/ KiSliderInput
    \/ KdSliderInput
    \/ Theta0SliderInput
    \/ StartCmd
    \/ PauseCmd
    \/ ResetBtnClick

Spec == Init /\ [][Next]_vars

\* ================================================================ claims
\* the sub-step that ended the most recent tick
LastStep == tickLog[Len(tickLog)]

\* The driver is Fallen: the fall check has fired since the last reset.
Fallen == fallSignals > 0

\* C1 (as claimed): once the fall check has fired, no step that keeps the
\* driver Fallen (anything but a reset) advances the simulation time, i.e. no
\* integrator step is applied until a reset; a start command while Fallen
\* does not advance the state.
C1_NoStepWhileFallen ==
    [][(Fallen /\ Fallen') => state'.time = state.time]_vars

\* C2: the cart position is within the track limit after every handler and
\* in every frame handed to the renderer; when the last tick's sub-steps left
\* |x| > 2.5, x is +2.5 or -2.5 with the sign of the unclamped x and xDot is 0.
C2_CartBounded ==
    /\ Abs(state.x) <= XLimit
    /\ \A i \in DOMAIN frames : Abs(frames[i].state.x) <= XLimit
    /\ (tickLog # <<>> /\ LastStep.post.x > XLimit)
          => (state.x = XLimit /\ state.xDot = 0)
    /\ (tickLog # <<>> /\ LastStep.post.x < -XLimit)
          => (state.x = -XLimit /\ state.xDot = 0)

\* C2 witness: the clamp fired in the most recent tick.
C2_ClampFired ==
    /\ lastCmd = "tick"
    /\ Abs(LastStep.post.x) > XLimit
    /\ LastStep.post.xDot # 0

\* Kp*theta + Ki*integral + Kd*thetaDot of st under the gains gn, saturated
\* at the actuator range
Saturated(gn, st) ==
    LET u == Mul(gn.Kp, st.theta) + Mul(gn.Ki, st.integral)
               + Mul(gn.Kd, st.thetaDot)
    IN  IF u > 50 * Scale THEN 50 * Scale
        ELSE IF u < -50 * Scale THEN -50 * Scale
        ELSE u

InRange(u) == -50 * Scale <= u /\ u <= 50 * Scale

\* C3: computeControl returns the saturated PID law for the current state and
\* gains; every force applied by a sub-step, the stored control input and
\* every force handed to the renderer lie in [-50, 50], and the force is 0
\* from a reset until the first tick after it.
C3_ForceSaturated ==
    /\ computeControl(state) = Saturated(gains, state)
    /\ InRange(controlInput)
    /\ \A i \in DOMAIN tickLog : InRange(tickLog[i].u)
    /\ \A i \in DOMAIN frames : InRange(frames[i].u)
    /\ tickLog = <<>> =>
          (controlInput = 0 /\ \A i \in DOMAIN frames : frames[i].u = 0)

\* C3 witness: a sub-step whose unsaturated law exceeded the actuator range
\* was given exactly the bound.
C3_SaturationReached ==
    /\ lastCmd = "tick"
    /\ Mul(gains.Kp, LastStep.pre.theta) + Mul(gains.Ki, LastStep.pre.integral)
         + Mul(gains.Kd, LastStep.pre.thetaDot) > 50 * Scale
    /\ LastStep.u = 50 * Scale
    /\ frames = <<Frame(state, 50 * Scale)>>

\* the state a reset must establish for the initial angle rad
Restored(rad) ==
    [x |-> 0, xDot |-> 0, theta |-> rad, thetaDot |-> 0, integral |-> 0,
     time |-> 0]

\* C4: right after a reset command, whatever preceded it, and right after
\* page initialisation, the driver is not running, x, xDot, thetaDot,
\* integral and time are 0 and theta is the configured initial angle.
C4_ResetRestores ==
    lastCmd \in {"init", "reset"} => (~isRunning /\ state = Restored(initialTheta))

\* C4 witness: a reset after the initial angle was changed to 89 degrees and
\* the driver had been started.
C4_ResetAfterRun ==
    /\ lastCmd = "reset"
    /\ animationId # 0
    /\ initialTheta = DegToRad(89)
    /\ state.theta = DegToRad(89)

\* C5: a start command in Idle makes the driver Running and leaves the state
\* alone; a pause command makes it not running and leaves the six state
\* fields, the gains and the initial angle unchanged; a start command that
\* follows a pause keeps that state, and the first sub-step of the tick after
\* a start begins from it.
C5_PauseResume ==
    [][/\ (lastCmd' = "start" /\ ~Fallen) => (~isRunning /\ isRunning' /\ state' = state)
       /\ lastCmd' = "pause" =>
             /\ isRunning /\ ~isRunning'
             /\ state' = state /\ gains' = gains /\ initialTheta' = initialTheta
       /\ (lastCmd = "pause" /\ lastCmd' = "start") => (isRunning' /\ state' = state)
       /\ (lastCmd = "start" /\ lastCmd' = "tick") => tickLog'[1].pre = state]_vars

\* C5 witness: a start command resumed a run that was paused after it had
\* advanced (the driver runs again, from a state with time > 0, without a
\* fall or a reset in between).
C5_Resumed ==
    /\ lastCmd = "start"
    /\ isRunning
    /\ ~Fallen
    /\ state.time > 0
    /\ state.integral # 0

\* C6 (as claimed): once the simulation has advanced, an input of the initial
\* angle leaves the simulation state unchanged, whether the driver is Running,
\* Idle after a pause or Fallen.
C6_Theta0LeavesState ==
    [][(lastCmd' = "theta0" /\ state.time > 0) => state' = state]_vars

\* C6 (amended): an input of the initial angle sets the configured initial
\* angle; while Running it leaves the simulation state unchanged, while not
\* running it sets state.theta to the new initial angle and leaves x, xDot,
\* thetaDot, integral and time unchanged; the gains, the running flag, the
\* stored control input and the pending callbacks are untouched.
C6_Theta0SetsThetaWhenStopped ==
    [][lastCmd' = "theta0" =>
          /\ \E deg \in Theta0Degrees : initialTheta' = DegToRad(deg)
          /\ isRunning => state' = state
          /\ ~isRunning =>
                state' = [x |-> state.x, xDot |-> state.xDot,
                          theta |-> initialTheta', thetaDot |-> state.thetaDot,
                          integral |-> state.integral, time |-> state.time]
          /\ UNCHANGED <<gains, isRunning, controlInput, pending>>]_vars

\* C6 witness: the initial angle was set while the driver was paused after it
\* had advanced, and theta of the simulation state is the new initial angle.
C6_Theta0SetWhilePaused ==
    /\ lastCmd = "theta0"
    /\ ~isRunning
    /\ ~Fallen
    /\ state.time > 0
    /\ state.thetaDot # 0
    /\ state.theta = initialTheta
    /\ initialTheta = DegToRad(89)

\* C7 (as claimed): a tick hands exactly one frame, the resulting state with
\* the last applied force, to the renderer, and the fall notification is
\* signalled at most once between two resets.
C7_OneFramePerTickOneFallSignal ==
    /\ lastCmd = "tick" => frames = <<Frame(state, controlInput)>>
    /\ fallSignals <= 1

\* ------------------------------------------- direct calls of the evaluator
\* inputs of the direct calls of computeDerivatives
ProbeX == {-2 * Scale, 0, Scale \div 2, 2 * Scale}
ProbeXDot == {-3 * Scale, 0, Scale \div 4, 2 * Scale}
ProbeTheta == {0, DegToRad(10), -DegToRad(60)}
ProbeThetaDot == {0, Scale, -2 * Scale}
ProbeU == {0, 50 * Scale, -7 * Scale}

\* computeDerivatives called on a state and a force, the result kept
ProbeDerivatives ==
    \E x \in ProbeX, xDot \in ProbeXDot, theta \in ProbeTheta,
       thetaDot \in ProbeThetaDot, u \in ProbeU :
        /\ probe' = <<[x |-> x, xDot |-> xDot, theta |-> theta,
                       thetaDot |-> thetaDot], u,
                      computeDerivatives([x |-> x, xDot |-> xDot, theta |-> theta,
                                          thetaDot |-> thetaDot], u)>>
        /\ UNCHANGED <<state, gains, initialTheta, isRunning, animationId,
                       controlInput, pending, startBtn, frames, tickLog,
                       fallSignals, lastCmd, inputs, friction, siteVars>>

SpecDerivatives == Init /\ [][ProbeDerivatives]_vars

\* the probe is a call at the upright equilibrium with no force
AtUpright == probe # <<>> /\ probe[1].theta = 0 /\ probe[1].thetaDot = 0 /\ probe[2] = 0

\* C8 (as claimed): for every x and every xDot, computeDerivatives at
\* theta = 0, thetaDot = 0 with u = 0 returns xDDot = 0 and thetaDDot = 0.
C8_UprightFixedPoint ==
    AtUpright => (probe[3].xDDot = 0 /\ probe[3].thetaDDot = 0)

\* C8 (amended): for every x and xDot = 0, computeDerivatives at theta = 0,
\* thetaDot = 0 with u = 0 returns xDDot = 0 and thetaDDot = 0 (and xDot and
\* thetaDot unchanged, so the state at rest is a fixed point).
C8_UprightAtRestFixedPoint ==
    (AtUpright /\ probe[1].xDot = 0) =>
        /\ probe[3].xDDot = 0 /\ probe[3].thetaDDot = 0
        /\ probe[3].xDot = 0 /\ probe[3].thetaDot = 0

\* C8 witness: a call at the upright equilibrium at rest, away from x = 0.
C8_UprightAtRestProbed ==
    AtUpright /\ probe[1].xDot = 0 /\ probe[1].x # 0 /\ probe[3].xDDot = 0

\* C9: at most one frame callback is pending, one is pending exactly when the
\* driver is running (the one whose handle is stored), and a tick that left a
\* callback pending had by then done its sub-steps, the clamp, the fall check
\* (not fallen) and the render.
C9_SingleCallback ==
    /\ Cardinality(pending) <= 1
    /\ (pending # {}) <=> isRunning
    /\ isRunning => pending = {animationId}
    /\ (lastCmd = "tick" /\ pending # {}) =>
          /\ Len(tickLog) = stepsPerFrame
          /\ state.time = LastStep.post.time
          /\ Abs(state.x) <= XLimit
          /\ 2 * Abs(state.theta) <= PI
          /\ frames = <<Frame(state, controlInput)>>

\* C9 witness: a tick, not the first, has requested the next one, after a
\* slider input had been delivered.
C9_Rescheduled ==
    /\ lastCmd = "tick"
    /\ isRunning
    /\ pending = {animationId}
    /\ state.time >= 2 * stepsPerFrame * PARAMS.dt
    /\ inputs > 0

\* C10: the force of every sub-step of a tick is the saturated PID law under
\* the gains as they were when the tick began (no input can intervene within
\* a tick), applied to the state that sub-step started from, and the first
\* sub-step starts from the state the tick found; so a gain change made
\* before a tick is used from that tick's first sub-step on.
C10_GainsReadAtUse ==
    [][lastCmd' = "tick" =>
          /\ tickLog'[1].pre = state
          /\ \A i \in DOMAIN tickLog' :
                tickLog'[i].u = Saturated(gains, tickLog'[i].pre)
          /\ \A i \in 2..Len(tickLog') : tickLog'[i].pre = tickLog'[i - 1].post]_vars

\* C10 witness: a tick that continued a run used gains that differ from the
\* initial ones, and its first force differs from what the initial gains
\* would have given.
C10_ChangedGainsUsed ==
    /\ lastCmd = "tick"
    /\ inputs > 0
    /\ gains # [Kp |-> 50 * Scale, Ki |-> 0, Kd |-> 20 * Scale]
    /\ tickLog[1].pre.time > 0
    /\ tickLog[1].u = Saturated(gains, tickLog[1].pre)
    /\ tickLog[1].u # Saturated([Kp |-> 50 * Scale, Ki |-> 0, Kd |-> 20 * Scale],
                                tickLog[1].pre)

\* ------------------------------------------------- the uncontrolled fall
\* The page after the user has moved the three gain sliders to 0 and the
\* theta0 slider to 89 and has clicked Reset: resetState() has rebuilt the
\* state from initialTheta, nothing is scheduled.  The slider events counted
\* by inputs are the ones delivered from here on.
InitToppling ==
    /\ initialTheta = DegToRad(89)
    /\ state = [x |-> 0, xDot |-> 0, theta |-> DegToRad(89), thetaDot |-> 0,
                integral |-> 0, time |-> 0]
    /\ gains = [Kp |-> 0, Ki |-> 0, Kd |-> 0]
    /\ isRunning = FALSE
    /\ animationId = 0
    /\ controlInput = 0
    /\ pending = {}
    /\ startBtn = "Start"
    /\ frames = <<Frame(state, 0)>>
    /\ tickLog = <<>>
    /\ fallSignals = 0
    /\ lastCmd = "reset"
    /\ inputs = 0
    /\ probe = <<>>
    /\ friction = PARAMS.friction
    /\ SiteLoaded

\* the buttons, the theta0 slider and the frame callbacks; the gain sliders
\* stay at 0
NextToppling ==
    \/ Tick
    \/ Theta0SliderInput
    \/ StartCmd
    \/ PauseCmd
    \/ ResetBtnClick

\* The host runs every callback registered with requestAnimationFrame that
\* is not cancelled: a tick that stays enabled is eventually taken.
SpecToppling == InitToppling /\ [][NextToppling]_vars /\ WF_vars(Tick)

\* the start command has just been given on the freshly reset state at 89
\* degrees with all three gains 0
TopplingStarted ==
    /\ lastCmd = "start"
    /\ isRunning
    /\ gains = [Kp |-> 0, Ki |-> 0, Kd |-> 0]
    /\ state = [x |-> 0, xDot |-> 0, theta |-> DegToRad(89), thetaDot |-> 0,
                integral |-> 0, time |-> 0]

\* the fall check has fired within three ticks of the start, the driver has
\* stopped and no frame callback is scheduled
ToppledAndStopped ==
    /\ Fallen
    /\ ~isRunning
    /\ pending = {}
    /\ HasFallen(state)
    /\ state.time <= 3 * stepsPerFrame * PARAMS.dt

\* C11: from the reset state at 89 degrees with Kp = Ki = Kd = 0, once the
\* start command is given and ticks are scheduled fairly, the driver
\* eventually -- within three ticks -- detects |theta| > pi/2, stops running
\* and has no further tick scheduled, unless the user steps in with another
\* command first.
C11_UncontrolledFall ==
    TopplingStarted ~> (ToppledAndStopped \/ lastCmd \notin {"start", "tick"})

\* C11 witness: the uncontrolled run has ended in the fall, by ticks alone.
C11_Toppled ==
    /\ ToppledAndStopped
    /\ lastCmd = "tick"
    /\ gains = [Kp |-> 0, Ki |-> 0, Kd |-> 0]
    /\ initialTheta = DegToRad(89)
    /\ \A i \in DOMAIN tickLog : tickLog[i].u = 0

\* ------------------------------------------------ the stabilised second
\* the host fires a pending frame callback during the first MaxStableTicks
\* ticks of a run
LongTick == \E h \in pending : (isRunning => Before(MaxStableTicks)) /\ simulate(h)

\* the buttons and the frame callbacks; the sliders stay at their defaults
NextStable ==
    \/ LongTick
    \/ StartCmd
    \/ PauseCmd
    \/ ResetBtnClick

\* the page as loaded (10 degrees, Kp = 50, Ki = 0, Kd = 20), run for one
\* simulated second and more
SpecStable == Init /\ [][NextStable]_vars

\* C12: from theta = 10 degrees, everything else 0, with Kp = 50, Ki = 0,
\* Kd = 20, every one of the first 100 integrator steps (dt = 0.01) yields a
\* state with |theta| < pi/2, and the fall check does not fire during that
\* second.
C12_StableSecond ==
    state.time <= 100 * PARAMS.dt =>
        /\ fallSignals = 0
        /\ 2 * Abs(state.theta) < PI
        /\ \A i \in DOMAIN tickLog : 2 * Abs(tickLog[i].post.theta) < PI
        /\ lastCmd = "tick" => isRunning

\* C12 witness: the hundredth integrator step has been taken and the driver
\* is still running.
C12_SecondCompleted ==
    /\ lastCmd = "tick"
    /\ state.time = 100 * PARAMS.dt
    /\ isRunning
    /\ initialTheta = DegToRad(10)
    /\ gains = [Kp |-> 50 * Scale, Ki |-> 0, Kd |-> 20 * Scale]

\* ------------------------------------------- the free, undamped pendulum
\* small initial angles, in degrees
EnergyTheta0 == {1, 5, 10}

\* The pendulum at rest at a small angle, PARAMS.friction set to 0; nothing
\* of the page is running.
InitEnergy ==
    /\ \E deg \in EnergyTheta0 :
          /\ initialTheta = DegToRad(deg)
          /\ state = [x |-> 0, xDot |-> 0, theta |-> DegToRad(deg),
                      thetaDot |-> 0, integral |-> 0, time |-> 0]
    /\ gains = [Kp |-> 50 * Scale, Ki |-> 0, Kd |-> 20 * Scale]
    /\ isRunning = FALSE
    /\ animationId = 0
    /\ controlInput = 0
    /\ pending = {}
    /\ startBtn = "Start"
    /\ frames = <<>>
    /\ tickLog = <<>>
    /\ fallSignals = 0
    /\ lastCmd = "init"
    /\ inputs = 0
    /\ probe = <<>>
    /\ friction = 0
    /\ SiteLoaded

\* state = rk4Step(state, 0, PARAMS.dt), called directly
FreeStep ==
    /\ state.time < MaxEnergySteps * PARAMS.dt
    /\ state' = rk4Step(state, 0, PARAMS.dt)
    /\ lastCmd' = "rk4Step"
    /\ UNCHANGED <<gains, initialTheta, isRunning, animationId, controlInput,
                   pending, startBtn, frames, tickLog, fallSignals, inputs,
                   probe, friction, siteVars>>

SpecEnergy == InitEnergy /\ [][FreeStep]_vars

\* total mechanical energy of cart and bob (bob at x + l sin(theta),
\* l cos(theta)):
\* (M + m) xDot^2 / 2 + m l xDot thetaDot cos(theta) + m l^2 thetaDot^2 / 2
\*   + m g l cos(theta)
Energy(st) ==
    Val({RDiv(Mul(Mul(PARAMS.M + PARAMS.m, st.xDot), st.xDot), 2)
           + Mul(Mul(Mul(Mul(PARAMS.m, PARAMS.l), st.xDot), st.thetaDot), c)
           + RDiv(Mul(Mul(Mul(Mul(PARAMS.m, PARAMS.l), PARAMS.l), st.thetaDot),
                      st.thetaDot), 2)
           + Mul(Mul(Mul(PARAMS.m, PARAMS.g), PARAMS.l), c) :
         c \in {Cos(st.theta)}})

\* C13: with friction = 0 and u = 0, during 1000 successive rk4Step calls
\* (dt = 0.01) from rest at a small angle the total mechanical energy stays
\* within 1% of its initial value.
C13_EnergyWithinOnePercent ==
    (friction = 0 /\ state.time <= 1000 * PARAMS.dt) =>
        100 * Abs(Energy(state) - Energy(ResetValue)) <= Abs(Energy(ResetValue))

\* C13 witness: the thousandth step has been taken, the pendulum has moved.
C13_ThousandSteps ==
    /\ friction = 0
    /\ lastCmd = "rk4Step"
    /\ state.time = 1000 * PARAMS.dt
    /\ state.theta # initialTheta
    /\ state.thetaDot # 0

\* ------------------------------------------------------ order in a tick
\* C14 (as claimed): whenever a sub-step of a tick produces a state with
\* |theta| > pi/2, the driver is Fallen when that tick ends and the crossing
\* sub-step is the last one applied in the tick.
C14_FallEndsSubSteps ==
    lastCmd = "tick" =>
        \A i \in DOMAIN tickLog :
            HasFallen(tickLog[i].post) =>
                /\ Fallen
                /\ ~isRunning
                /\ i = Len(tickLog)

\* C15: a tick run while Running does, in this order, all its sub-steps, the
\* cart-position clamp, the fall check and the render hand-off: the state left
\* behind is the last sub-step's result with the clamp applied, the running
\* flag is the outcome of the fall check on that post-clamp state, and the
\* renderer is handed that post-clamp state with the last applied force.
C15_TickOrder ==
    lastCmd = "tick" =>
        /\ state = IF LastStep.post.x > XLimit
                   THEN [LastStep.post EXCEPT !.x = XLimit, !.xDot = 0]
                   ELSE IF LastStep.post.x < -XLimit
                   THEN [LastStep.post EXCEPT !.x = -XLimit, !.xDot = 0]
                   ELSE LastStep.post
        /\ isRunning = ~(2 * Abs(state.theta) > PI)
        /\ (2 * Abs(state.theta) > PI) => (Fallen /\ startBtn = "Start")
        /\ controlInput = LastStep.u
        /\ frames = <<[state |-> state, u |-> LastStep.u]>>

\* C15 witness: a tick whose clamp changed the state, so that the post-clamp
\* state handed to the renderer differs from the last sub-step's result.
C15_ClampedStateRendered ==
    /\ lastCmd = "tick"
    /\ state # LastStep.post
    /\ frames[1].state = state
    /\ frames[1].state # LastStep.post

\* C16: every tick run while Running performs exactly stepsPerFrame = 2
\* integrator sub-steps, the first from the state the tick found, each with the
\* force the control law gives for the state it starts from; the simulated
\* time grows by exactly 2 * dt per tick and is always an integer multiple of
\* 2 * dt.
C16_TwoSubStepsPerTick ==
    /\ [](state.time % (2 * PARAMS.dt) = 0)
    /\ [](lastCmd = "tick" =>
            /\ Len(tickLog) = 2
            /\ tickLog[2].pre = tickLog[1].post
            /\ \A i \in 1..2 :
                  /\ tickLog[i].u = Saturated(gains, tickLog[i].pre)
                  /\ tickLog[i].post.time = tickLog[i].pre.time + PARAMS.dt)
    /\ [][lastCmd' = "tick" =>
            /\ tickLog'[1].pre = state
            /\ state'.time = state.time + 2 * PARAMS.dt]_vars

\* C16 witness: a tick after the first one whose two sub-steps were driven by
\* two different forces.
C16_TwoForcesInOneTick ==
    /\ lastCmd = "tick"
    /\ Len(tickLog) = 2
    /\ tickLog[1].u # tickLog[2].u
    /\ state.time > 2 * PARAMS.dt

\* --------------------------------------------------- rk4Step, called directly
\* the integral, time and dt values of the calls
ProbeIntegral == {0, (3 * Scale) \div 10, -2 * Scale}
ProbeTime == {0, 5 * PARAMS.dt}
ProbeDt == {PARAMS.dt, 2 * PARAMS.dt}

\* one call rk4Step(state, u, dt) on the page as loaded
ProbeRk4Step ==
    /\ probe = <<>>
    /\ \E x \in ProbeX, xDot \in ProbeXDot, theta \in ProbeTheta,
          thetaDot \in ProbeThetaDot, integral \in ProbeIntegral,
          time \in ProbeTime, u \in ProbeU, dt \in ProbeDt :
          \E st \in {[x |-> x, xDot |-> xDot, theta |-> theta,
                      thetaDot |-> thetaDot, integral |-> integral,
                      time |-> time]} :
              probe' = <<st, u, rk4Step(st, u, dt), dt>>
    /\ UNCHANGED <<state, gains, initialTheta, isRunning, animationId,
                   controlInput, pending, startBtn, frames, tickLog,
                   fallSignals, lastCmd, inputs, friction, siteVars>>

SpecRk4Step == Init /\ [][ProbeRk4Step]_vars

\* a call of rk4Step has been made
Rk4Probed == Len(probe) = 4

\* C17: every rk4Step returns integral + theta * dt, with the theta of the
\* state it was given, as the integral and time + dt as the time, whatever
\* the force.
C17_IntegralAndTime ==
    Rk4Probed =>
        /\ probe[3].integral = probe[1].integral + Mul(probe[1].theta, probe[4])
        /\ probe[3].time = probe[1].time + probe[4]

\* C17 witness: a call with a force and an angle other than 0 whose result has
\* another angle than the state it was given.
C17_IntegralAdvanced ==
    /\ Rk4Probed
    /\ probe[2] # 0
    /\ probe[1].theta # 0
    /\ probe[3].theta # probe[1].theta
    /\ probe[3].integral # probe[1].integral

\* st + k * dt / n in the four integrated fields
Ahead(st, k, dt, n) ==
    [x |-> st.x + RDiv(Mul(k.xDot, dt), n),
     xDot |-> st.xDot + RDiv(Mul(k.xDDot, dt), n),
     theta |-> st.theta + RDiv(Mul(k.thetaDot, dt), n),
     thetaDot |-> st.thetaDot + RDiv(Mul(k.thetaDDot, dt), n)]

\* st + (k1 + 2 k2 + 2 k3 + k4) * dt / 6 in the four integrated fields
Weighted(st, k1, k2, k3, k4, dt) ==
    [x |-> st.x + RDiv(Mul(k1.xDot + 2 * k2.xDot + 2 * k3.xDot + k4.xDot, dt), 6),
     xDot |-> st.xDot
                + RDiv(Mul(k1.xDDot + 2 * k2.xDDot + 2 * k3.xDDot + k4.xDDot, dt), 6),
     theta |-> st.theta
                + RDiv(Mul(k1.thetaDot + 2 * k2.thetaDot + 2 * k3.thetaDot
                             + k4.thetaDot, dt), 6),
     thetaDot |-> st.thetaDot
                + RDiv(Mul(k1.thetaDDot + 2 * k2.thetaDDot + 2 * k3.thetaDDot
                             + k4.thetaDDot, dt), 6)]

\* C18: rk4Step evaluates the derivatives at the state it was given (k1), at
\* that state + k1 * dt / 2 (k2), + k2 * dt / 2 (k3) and + k3 * dt (k4), all
\* four with the force it was given, and returns, for x, xDot, theta and
\* thetaDot, the state + (k1 + 2 k2 + 2 k3 + k4) * dt / 6.
C18_ClassicalRk4 ==
    Rk4Probed =>
        \A st \in {probe[1]}, u \in {probe[2]}, dt \in {probe[4]} :
        \A k1 \in {computeDerivatives(st, u)} :
        \A k2 \in {computeDerivatives(Ahead(st, k1, dt, 2), u)} :
        \A k3 \in {computeDerivatives(Ahead(st, k2, dt, 2), u)} :
        \A k4 \in {computeDerivatives(Ahead(st, k3, dt, 1), u)} :
        \A w \in {Weighted(st, k1, k2, k3, k4, dt)} :
            /\ probe[3].x = w.x
            /\ probe[3].xDot = w.xDot
            /\ probe[3].theta = w.theta
            /\ probe[3].thetaDot = w.thetaDot

\* C18 witness: a call with a force other than 0 on a moving, tilted pendulum
\* that changed all four integrated fields.
C18_AllFieldsStepped ==
    /\ Rk4Probed
    /\ probe[2] # 0
    /\ probe[1].thetaDot # 0
    /\ probe[3].x # probe[1].x
    /\ probe[3].xDot # probe[1].xDot
    /\ probe[3].theta # probe[1].theta
    /\ probe[3].thetaDot # probe[1].thetaDot

\* ----------------------------------------------------------- denominator
\* denom as computeDerivatives computes it for the angle theta
ProbeDenominator ==
    /\ probe = <<>>
    /\ \E deg \in -MaxProbeAngle..MaxProbeAngle, turns \in {1, 2} :
          \E theta \in {turns * DegToRad(deg)} :
              probe' = <<theta, Denom(Cos(theta))>>
    /\ UNCHANGED <<state, gains, initialTheta, isRunning, animationId,
                   controlInput, pending, startBtn, frames, tickLog,
                   fallSignals, lastCmd, inputs, friction, siteVars>>

SpecDenominator == Init /\ [][ProbeDenominator]_vars

\* C19: with the masses of PARAMS (M = 1, m = 0.1, both positive) the
\* denominator M + m - m * cos(theta)^2 of computeDerivatives is at least M
\* for every angle, so it and the second divisor l * denom are strictly
\* positive: no derivative evaluation divides by zero.
C19_DenominatorAtLeastM ==
    Len(probe) = 2 =>
        /\ probe[2] >= PARAMS.M
        /\ probe[2] > 0
        /\ Mul(PARAMS.l, probe[2]) > 0

\* C19 witness: the pendulum hanging straight down, where cos(theta)^2 = 1 and
\* the denominator is exactly M.
C19_MinimumAttained ==
    /\ Len(probe) = 2
    /\ probe[1] = DegToRad(180)
    /\ probe[2] = PARAMS.M

\* ------------------------------------------- a frame while nothing runs
\* simulate is entered while isRunning is false.  The script never leaves a
\* callback registered in that situation, so the call is made directly.
StrayFrame == ~isRunning /\ simulate(0)

NextStray ==
    \/ Tick
    \/ StrayFrame
    \/ Theta0SliderInput
    \/ StartCmd
    \/ PauseCmd
    \/ ResetBtnClick

SpecStray == Init /\ [][NextStray]_vars

\* C20: when simulate is entered while the driver is not Running (Idle or
\* Fallen) it leaves the simulation state, the last applied force and the
\* running flag as they are, hands nothing to the renderer and registers no
\* frame callback.
C20_FrameWhileStoppedIsInert ==
    [][(~isRunning /\ lastCmd' \in {"frame", "tick"}) =>
          /\ UNCHANGED <<state, controlInput, isRunning, animationId, tickLog,
                         fallSignals, startBtn>>
          /\ frames' = <<>>
          /\ pending' \subseteq pending]_vars

\* C20 witness: simulate has been entered after the pendulum had fallen.
C20_FrameAfterFall ==
    /\ lastCmd = "frame"
    /\ Fallen
    /\ ~isRunning
    /\ pending = {}
    /\ HasFallen(state)

\* ---------------------------------------------- what a tick hands over
\* C21: the force handed to the renderer at the end of a tick is the
\* controller output computed at the start of the tick's last sub-step, from
\* the state before the last integrator step and the gains of that moment; it
\* is the value left in controlInput, not one recomputed from the state that
\* is rendered with it.
C21_RenderedForceIsLastApplied ==
    lastCmd = "tick" =>
        /\ Len(frames) = 1
        /\ frames[1].u = Saturated(gains, LastStep.pre)
        /\ frames[1].u = controlInput

\* C21 witness: a tick whose rendered force differs from what the control law
\* gives for the rendered state.
C21_ForceOlderThanState ==
    /\ lastCmd = "tick"
    /\ frames[1].u = Saturated(gains, LastStep.pre)
    /\ frames[1].u # Saturated(gains, frames[1].state)

\* C22: the cart clamp of a tick changes x and xDot only: theta, thetaDot,
\* integral and time after the tick are those the last sub-step produced,
\* whether or not the clamp fired.
C22_ClampTouchesCartOnly ==
    lastCmd = "tick" =>
        /\ state.theta = LastStep.post.theta
        /\ state.thetaDot = LastStep.post.thetaDot
        /\ state.integral = LastStep.post.integral
        /\ state.time = LastStep.post.time

\* C22 witness: the clamp fired on a swinging pendulum and left its angle,
\* angular velocity and integral in place.
C22_ClampFiredPendulumKept ==
    /\ lastCmd = "tick"
    /\ state.x # LastStep.post.x
    /\ state.xDot = 0
    /\ state.thetaDot # 0
    /\ state.thetaDot = LastStep.post.thetaDot
    /\ state.integral # 0

\* ======================================================== common.js
\* ------------------------------------------------- mobile navigation
\* what the navigation's listeners never touch
notNav == <<pendulumVars, debounceVars, tagVars, polarVars, axisVars>>

\* the string setAttribute stores for a boolean
BoolAttr(b) == IF b THEN "true" ELSE "false"

\* an event is delivered to the navigation and handled
Handled(event) ==
    /\ Len(navLog) < MaxNavEvents
    /\ navLog' = Append(navLog, event)

\* faulty variant of CloseMenu: only the class is removed
CloseMenuClassOnly ==
    /\ navActive' = FALSE
    /\ UNCHANGED ariaExpanded

\* navList.classList.remove('active');
\* navToggle.setAttribute('aria-expanded', 'false')
CloseMenu ==
    /\ navActive' = FALSE
    /\ ariaExpanded' = "false"

\* 'click' on navToggle: its own listener, then the document listener, which
\* finds the target inside navToggle and does nothing
ToggleClick ==
    /\ Handled("toggle")
    /\ navActive' = ~navActive
    /\ ariaLabel' = IF navActive' THEN CloseMenuLabel ELSE OpenMenuLabel
    /\ ariaExpanded' = BoolAttr(navActive')
    /\ UNCHANGED notNav

\* 'click' on an element inside navList: the document listener does nothing
InsideClick ==
    /\ Handled("inside")
    /\ UNCHANGED <<navActive, ariaExpanded, ariaLabel, notNav>>

\* 'click' anywhere outside navToggle and navList
OutsideClick ==
    /\ Handled("outside")
    /\ CloseMenu
    /\ UNCHANGED <<ariaLabel, notNav>>

\* 'keydown' with key 'Escape'
EscapeKey ==
    /\ Handled("escape")
    /\ IF navActive THEN CloseMenu ELSE UNCHANGED <<navActive, ariaExpanded>>
    /\ UNCHANGED <<ariaLabel, notNav>>

NextNav ==
    \/ ToggleClick
    \/ InsideClick
    \/ OutsideClick
    \/ EscapeKey

\* The markup is not part of the scripts: the toggle comes with aria-expanded
\* absent or "false" and with aria-label absent or "open menu".
InitNav ==
    /\ PendulumLoaded
    /\ DebouncedCreated
    /\ TagMarkup({1}, {})
    /\ WidgetsAbsent
    /\ \E expanded \in {"absent", "false"}, label \in {"absent", OpenMenuLabel} :
          NavMarkup(expanded, label)

SpecNav == InitNav /\ [][NextNav]_vars

\* C23: after any sequence of toggle clicks, clicks outside the menu and
\* Escape presses, aria-expanded of the toggle is "true" exactly when the nav
\* list carries the class 'active'.
C23_ExpandedIffActive == (ariaExpanded = "true") <=> navActive

\* C23 witness: the menu is open again after having been closed by Escape
\* and by a click outside.
C23_ReopenedAfterClosing ==
    /\ navActive
    /\ ariaExpanded = "true"
    /\ \E i \in DOMAIN navLog : navLog[i] = "escape"
    /\ \E i \in DOMAIN navLog : navLog[i] = "outside"

\* C24 (as claimed): once a toggle click has been handled, aria-label of the
\* toggle is the "close menu" text exactly when the menu is open and the
\* "open menu" text exactly when it is closed.
C24_LabelFollowsMenu ==
    (\E i \in DOMAIN navLog : navLog[i] = "toggle") =>
        /\ (ariaLabel = CloseMenuLabel) <=> navActive
        /\ (ariaLabel = OpenMenuLabel) <=> ~navActive

\* ------------------------------------------------------------ debounce
\* what the debounced function and its timer never touch
notDebounce == <<pendulumVars, navVars, tagVars, polarVars, axisVars>>

\* the wait of debounce(func, wait), in timer ticks
DebounceWait == 2

\* the this-values and the argument lists of the calls
Contexts == {"a", "b"}
Arguments == {<<1>>, <<2, 3>>}

\* faulty variant of ClearStoredTimer: clearTimeout is not called
ClearNoTimer == timers

\* clearTimeout(timeout): the timer with the stored handle, if it is still
\* registered, is dropped
ClearStoredTimer == {t \in timers : t.id # timeout}

\* a call of the function debounce returned ("executedFunction"), with
\* this = context and arguments = args.  setTimeout returns a handle it has
\* not returned before.
DebouncedCall ==
    \E context \in Contexts, args \in Arguments :
    \E id \in {Len(calls) + 1}, kept \in {ClearStoredTimer} :
        /\ Len(calls) < MaxCalls
        /\ timers' = kept \cup {[id |-> id, due |-> now + DebounceWait,
                                 context |-> context, args |-> args]}
        /\ timeout' = id
        /\ calls' = Append(calls, [context |-> context, args |-> args,
                                   at |-> now, cancelled |-> kept # timers])
        /\ UNCHANGED <<now, invocations, notDebounce>>

\* the host runs a registered timer whose delay has elapsed, on time or late:
\* func.apply(context, args)
TimerFires ==
    \E t \in timers :
        /\ now >= t.due
        /\ timers' = timers \ {t}
        /\ invocations' = Append(invocations,
                                 [context |-> t.context, args |-> t.args,
                                  at |-> now, seen |-> Len(calls)])
        /\ UNCHANGED <<now, timeout, calls, notDebounce>>

\* one timer tick passes
TimePasses ==
    /\ now < MaxTime
    /\ now' = now + 1
    /\ UNCHANGED <<timeout, timers, calls, invocations, notDebounce>>

NextDebounce ==
    \/ DebouncedCall
    \/ TimerFires
    \/ TimePasses

SpecDebounce == Init /\ [][NextDebounce]_vars

\* the invocations of func made while call i was the most recent call
InvocationsOf(i) == {j \in DOMAIN invocations : invocations[j].seen = i}

\* every invocation of func carries the this-value and the arguments of the
\* call that was the most recent one when it was made, and is made wait or
\* more after that call
InvocationsAreOfLastCall ==
    \A j \in DOMAIN invocations :
        /\ invocations[j].seen \in DOMAIN calls
        /\ invocations[j].context = calls[invocations[j].seen].context
        /\ invocations[j].args = calls[invocations[j].seen].args
        /\ invocations[j].at >= calls[invocations[j].seen].at + DebounceWait

\* C25 (as claimed): func is invoked only wait or more after the most recent
\* call, with that call's this-value and arguments; a call followed by
\* another one less than wait later is never served, and a call followed by
\* the next one wait or more later -- the last call of a burst -- is served
\* exactly once before that next call; at most one timer is pending.
C25_OneInvocationPerBurst ==
    /\ Cardinality(timers) <= 1
    /\ InvocationsAreOfLastCall
    /\ \A i \in 1..(Len(calls) - 1) :
          Cardinality(InvocationsOf(i))
            = IF calls[i + 1].at - calls[i].at < DebounceWait THEN 0 ELSE 1

\* C25 (amended): func is invoked only wait or more after the most recent
\* call, with that call's this-value and arguments; a call is served exactly
\* once if the next call finds no timer pending, and never if the next call
\* finds its timer still pending and cancels it, which every call less than
\* wait later does and a later call does when the timer runs late; the last
\* call is served once its timer has run; at most one timer is pending.
C25_OneInvocationPerUncancelledCall ==
    /\ Cardinality(timers) <= 1
    /\ InvocationsAreOfLastCall
    /\ \A i \in 1..(Len(calls) - 1) :
          /\ Cardinality(InvocationsOf(i)) = IF calls[i + 1].cancelled THEN 0 ELSE 1
          /\ calls[i + 1].at - calls[i].at < DebounceWait => calls[i + 1].cancelled
    /\ calls # <<>> =>
          Cardinality(InvocationsOf(Len(calls))) = IF timers = {} THEN 1 ELSE 0

\* C25 witness: the second call came wait or more after the first, cancelled
\* the first call's overdue timer, and has been served itself.
C25_LateTimerCancelled ==
    /\ Len(calls) >= 2
    /\ calls[2].at - calls[1].at >= DebounceWait
    /\ calls[2].cancelled
    /\ InvocationsOf(1) = {}
    /\ InvocationsOf(2) # {}
    /\ calls[1].context # calls[2].context

\* ---------------------------------------------------------- tag filter
\* what the tag filter's listeners never touch
notTags == <<pendulumVars, navVars, debounceVars, polarVars, axisVars>>

\* An attribute value is a sequence of pieces: words and single spaces.  A
\* string without spaces is a sequence of one word, the empty string is <<>>.
\* data-tag of the buttons .tag-filter .tag, in document order
ButtonTag == << <<"all">>, <<"control">>, <<"aero">>, <<"control">> >>
\* data-tags of the cards .article-card[data-tags], in document order
DataTags == << <<"control">>,
              <<"aero", " ", "control">>,
              <<"misc", " ", " ", "draft">> >>

Buttons == DOMAIN ButtonTag
Articles == DOMAIN DataTags

\* String.prototype.split(' '): the strings between the spaces, empty ones
\* included; word collects the pieces since the last space
RECURSIVE SplitFrom(_, _, _)
SplitFrom(value, i, word) ==
    IF i > Len(value) THEN <<word>>
    ELSE IF value[i] = " " THEN <<word>> \o SplitFrom(value, i + 1, <<>>)
    ELSE SplitFrom(value, i + 1, Append(word, value[i]))

Split(value) == SplitFrom(value, 1, <<>>)

\* Array.prototype.includes
Includes(array, x) == \E k \in DOMAIN array : array[k] = x

\* faulty variant of Matches: 'all' is treated like any other tag
MatchesTagOnly(selectedTag, articleTags) == Includes(articleTags, selectedTag)

\* selectedTag === 'all' || articleTags.includes(selectedTag)
Matches(selectedTag, articleTags) ==
    selectedTag = <<"all">> \/ Includes(articleTags, selectedTag)

\* 'click' on the tag button b
TagClick(b) ==
    /\ Len(tagLog) < MaxTagClicks
    /\ tagLog' = Append(tagLog, b)
    /\ tagActive' = (tagActive \ Buttons) \cup {b}
    /\ hidden' = {a \in Articles : ~Matches(ButtonTag[b], Split(DataTags[a]))}
    /\ UNCHANGED notTags

NextTags == \E b \in Buttons : TagClick(b)

\* The markup is not part of the scripts: any of the buttons may be marked
\* active and any of the cards hidden when the page loads.
InitTags ==
    /\ PendulumLoaded
    /\ NavMarkup("false", OpenMenuLabel)
    /\ DebouncedCreated
    /\ WidgetsAbsent
    /\ \E active \in SUBSET Buttons, hide \in SUBSET Articles :
          TagMarkup(active, hide)

SpecTags == InitTags /\ [][NextTags]_vars

\* the data-tag of the button clicked last
LastTag == ButtonTag[tagLog[Len(tagLog)]]

\* C26: after any sequence of clicks on tag buttons, the button clicked last
\* is the only one that carries 'tag-active', and a card is hidden iff the tag
\* of that button is not 'all' and is not among the card's data-tags, whatever
\* was clicked before and whatever the page looked like.
C26_LastClickDecides ==
    tagLog # <<>> =>
        /\ tagActive = {tagLog[Len(tagLog)]}
        /\ \A a \in Articles :
              a \in hidden <=>
                 /\ LastTag # <<"all">>
                 /\ \A k \in DOMAIN Split(DataTags[a]) :
                       Split(DataTags[a])[k] # LastTag

\* C26 witness: after two clicks on buttons with different tags the second
\* tag hides some of the cards and shows the others.
C26_SecondTagFilters ==
    /\ Len(tagLog) >= 2
    /\ ButtonTag[tagLog[1]] # LastTag
    /\ hidden # {}
    /\ hidden # Articles
    /\ tagActive = {tagLog[Len(tagLog)]}

\* ------------------------------------------------- polarcurve.js, the widget
notPolar == <<pendulumVars, navVars, debounceVars, tagVars, axisVars>>

\* the values a slider at the value v takes next: one step or ten steps up
\* or down, within its range (every value of the range is reached so)
SliderMoves(v, min, max) == {v - 10, v - 1, v + 1, v + 10} \cap (min..max)

\* React renders again after a change of state: data is recomputed for the
\* load factor g and bestGlide for data and the wind w
Render(w, g) ==
    \E data \in {Curve(g)} :
       \E r \in BestGlides(data, w) :
          /\ bestGlide' = r.bestPoint
          /\ minSlope' = r.minSlope

\* onChange of the wind slider: setWind(parseFloat(e.target.value))
WindSlider ==
    \E w \in SliderMoves(wind, WindMin, WindMax) :
       /\ wind' = w
       /\ gLoad' = gLoad
       /\ Render(w, gLoad)
       /\ UNCHANGED notPolar

\* onChange of the load-factor slider: setGLoad(parseFloat(e.target.value))
GLoadSlider ==
    \E g \in SliderMoves(gLoad, GLoadMin, GLoadMax) :
       /\ gLoad' = g
       /\ wind' = wind
       /\ Render(wind, g)
       /\ UNCHANGED notPolar

NextPolar == WindSlider \/ GLoadSlider

\* the page of the polar curve
InitPolar ==
    /\ PendulumLoaded
    /\ NavMarkup("false", OpenMenuLabel)
    /\ DebouncedCreated
    /\ TagMarkup({1}, {})
    /\ VisualizerAbsent
    /\ PolarMounted

SpecPolar == InitPolar /\ [][NextPolar]_vars

\* the ground speed of the curve point p in the present wind, in hundredths
GroundSpeed(p) == p.vAir - 100 * wind

\* the curve point p may be chosen: its ground speed is above 5
Flies(p) == GroundSpeed(p) > MinGroundSpeed

\* wSink / (vAir - wind) of the point p is at most that of the point q
NoSteeper(p, q) == p.wSink * GroundSpeed(q) <= q.wSink * GroundSpeed(p)

\* C27 as stated: for every wind and load factor of the sliders' ranges the
\* selected point is a point of the curve with ground speed above 5 whose
\* ratio wSink / (vAir - wind) is minimal among the points with ground speed
\* above 5, and it is the first point of the curve with that minimal ratio;
\* the fallback to the first point is not used.
C27_FirstBestPoint ==
    \E data \in {Curve(gLoad)} :
       /\ minSlope # Infinity
       /\ \E i \in DOMAIN data :
             /\ data[i] = bestGlide
             /\ Flies(data[i])
             /\ \A j \in DOMAIN data : Flies(data[j]) => NoSteeper(data[i], data[j])
             /\ \A j \in 1..(i - 1) : Flies(data[j]) => ~NoSteeper(data[j], data[i])

\* C27 amended: for every wind and load factor of the sliders' ranges the
\* selected point is a point of the curve with ground speed above 5 whose
\* ratio wSink / (vAir - wind) is minimal among the points with ground speed
\* above 5, minSlope is that ratio, and the fallback to the first point is
\* not used; of several points with the minimal ratio any may be selected.
C27_BestPoint ==
    \E data \in {Curve(gLoad)} :
       /\ wind \in WindMin..WindMax
       /\ gLoad \in GLoadMin..GLoadMax
       /\ minSlope # Infinity
       /\ \E i \in DOMAIN data :
             /\ data[i] = bestGlide
             /\ minSlope = <<bestGlide.wSink, GroundSpeed(bestGlide)>>
             /\ Flies(data[i])
             /\ \A j \in DOMAIN data : Flies(data[j]) => NoSteeper(data[i], data[j])

\* C27 witness: wind 33 at load factor 1.0, where the points (68.00, 1.75)
\* and (72.00, 1.95) both have the minimal ratio 0.05, slower points are
\* skipped, and the later of the two is selected.
C27_LaterOfTwoSelected ==
    /\ wind = 33
    /\ gLoad = 10
    /\ bestGlide = [vAir |-> 7200, wSink |-> 195]
    /\ \E data \in {Curve(gLoad)} :
          /\ \E j \in DOMAIN data :
                /\ data[j] = [vAir |-> 6800, wSink |-> 175]
                /\ NoSteeper(data[j], bestGlide)
          /\ \E j \in DOMAIN data : ~Flies(data[j])

\* ------------------------------- coordinateTransformation.js, the widget
notAxis == <<pendulumVars, navVars, debounceVars, tagVars, polarVars>>

ViewModes == {"body", "stability"}

\* onChange of the alpha slider: setAlpha(parseInt(e.target.value)), after
\* which the effect draws the canvas again
AlphaSlider ==
    \E a \in AlphaMin..AlphaMax :
       /\ a # alpha
       /\ alpha' = a
       /\ viewMode' = viewMode
       /\ canvas' = drawSystem(a, viewMode)
       /\ UNCHANGED notAxis

\* onClick of one of the two view buttons: setViewMode(mode), after which
\* the effect draws the canvas again
ViewButton ==
    \E mode \in ViewModes :
       /\ mode # viewMode
       /\ viewMode' = mode
       /\ alpha' = alpha
       /\ canvas' = drawSystem(alpha, mode)
       /\ UNCHANGED notAxis

NextAxis == AlphaSlider \/ ViewButton

\* the page of the axis visualizer
InitAxis ==
    /\ PendulumLoaded
    /\ NavMarkup("false", OpenMenuLabel)
    /\ DebouncedCreated
    /\ TagMarkup({1}, {})
    /\ PolarAbsent
    /\ VisualizerMounted

SpecAxis == InitAxis /\ [][NextAxis]_vars

\* the angle at which the axes of the given name were drawn
AngleOf(axes) == IF axes = "body" THEN canvas.bodyAngle ELSE canvas.stabAngle

\* C28 as stated: for every alpha and both view modes, the axes drawn at
\* angle 0 are exactly the axes the view mode names, and the angle of the
\* stability axes minus the angle of the body axes is alpha in radians.
C28_OnlyNamedAxesUnrotated ==
    /\ \A axes \in ViewModes : AngleOf(axes) = 0 <=> axes = viewMode
    /\ canvas.stabAngle - canvas.bodyAngle = toRad(alpha)

\* C28 amended: for every alpha and both view modes, the axes the view mode
\* names are drawn at angle 0, the other axes are drawn at angle 0 exactly
\* when alpha is 0, and the angle of the stability axes minus the angle of
\* the body axes is alpha in radians.
C28_NamedAxesUnrotated ==
    /\ alpha \in AlphaMin..AlphaMax
    /\ viewMode \in ViewModes
    /\ AngleOf(viewMode) = 0
    /\ \A axes \in ViewModes \ {viewMode} : AngleOf(axes) = 0 <=> alpha = 0
    /\ canvas.stabAngle - canvas.bodyAngle = toRad(alpha)

\* C28 witness: the view was switched to the body axes at alpha 0, and both
\* axis systems are drawn unrotated.
C28_BothUnrotated ==
    /\ alpha = 0
    /\ viewMode = "body"
    /\ canvas = [bodyAngle |-> 0, stabAngle |-> 0]

====
